---------------------------- MODULE Spec2Model ----------------------------
(***************************************************************************)
(* The iMIP mail gateway of twistedcaldav/mail.py: the token table         *)
(* (MailGatewayTokensDatabase), the inbound classify/rewrite pipeline and  *)
(* the outbound composition of MailHandler, the HTTP injection with its    *)
(* 401 negotiation (injectMessage, AuthorizedHTTPGetter) and the two       *)
(* mailbox pollers (POP3DownloadProtocol, IMAP4DownloadProtocol).          *)
(*                                                                         *)
(* Twisted runs every callback to completion on one reactor thread, so one *)
(* action is one handler.  The specifications share the variables:         *)
(*   Spec          the gateway over days: start, stop, outbound, lookups   *)
(*   SpecCompose   the gateway over days, its start with every mail type,  *)
(*                 compositions of requests and cancellations              *)
(*   SpecMail      a running gateway: outbound and inbound messages        *)
(*   SpecSessions  POSTs to /inbox from several sessions, interleaved      *)
(*   SpecInject    one injection's HTTP exchange                           *)
(*   SpecPoll      the POP3 or IMAP4 poller over its sessions              *)
(*   SpecPollFair      SpecPoll with the reactor and the server fair       *)
(*   SpecPollAnswered  the same, no command refused, no connection dropped *)
(*   SpecAuth      SpecPoll with servers of every AUTH capability list     *)
(*   SpecService   SpecPoll with a service that can be stopped             *)
(*   SpecLife      the gateway over its runs: handler, table and poller    *)
(*   SpecToken     _extractToken and its callers over address shapes       *)
(***************************************************************************)
EXTENDS Integers, Sequences, FiniteSets, TLC

VARIABLES
    running,    \* the gateway process is up (a MailHandler exists)
    tokens,     \* TOKENS rows as the open sqlite connection sees them
    disk,       \* TOKENS rows committed to mailgatewaytokens.sqlite
    today,      \* datetime.date.today(), as a day number
    days,       \* config.Scheduling.iMIP.InvitationDaysToLive
    minted,     \* number of uuid4 tokens minted so far
    sess,       \* the POSTs to the gateway's /inbox: session -> request and answer
    given,      \* per triple, the token outbound last obtained and the day (observation)
    last,       \* what the last handler did and returned (observation)
    inj,        \* one injection: the HTTPClientFactory of injectMessage and its exchange
    proto,      \* settings["Receiving"]["Type"]: "POP3" or "IMAP4"
    mbox,       \* the messages in the remote mailbox (their numbers)
    kinds,      \* per message that ever arrived: what inbound does with it
    marked,     \* the messages the server holds as deleted (DELE done, \Deleted set)
    pc,         \* where the poller session is: the answer it waits for
    cmdq,       \* POP3Client: the commands issued and not yet answered, oldest first
    uids,       \* IMAP4DownloadProtocol.messageUIDs
    cur,        \* IMAP4: the message of the fetch under way (0: none)
    injs,       \* per message, the state of the injection inbound started for it
    delAt,      \* <<m, s>>: this session issued the delete of m when injs[m] was s
    fetched,    \* the messages this session handed to handleMessage, in order
    timer,      \* the delays of the reconnects scheduled and not yet run (nextPoll)
    sn,         \* what the current or last session came to (observation)
    cycles,     \* connection attempts so far
    svc         \* the poller service: "new", "started" or "stopped"

pollVars == <<proto, mbox, kinds, marked, pc, cmdq, uids, cur, injs, delAt, fetched, timer, sn, cycles, svc>>

vars == <<running, tokens, disk, today, days, minted, sess, given, last, inj, pollVars>>

\* the variables of the MailHandler and its table
mailVars == <<running, tokens, disk, today, days, minted, sess, given, last>>

\* the variables the MailHandler's handlers leave alone
notMail == <<inj, pollVars>>

(***************************************************************************)
(* Bounds                                                                  *)
(***************************************************************************)
MaxDay == 2
MaxTokens == 2
MaxDaysToLive == 2
NumSessions == 2
MaxMail == 2
MaxCycles == 2
MaxAddr == 4

None == "none"

\* An address is the sequence of its pieces, the separators '+' and '@' being
\* pieces of their own, so that split, startswith and slicing act on it as the
\* code's string operations do: "mailto:b@y.com" is <<"mailto:", "b", "@", "y.com">>.
OrgA == <<"mailto:", "a", "@", "x.com">>
AttB == <<"mailto:", "b", "@", "y.com">>
AttC == <<"urn:uuid:", "c">>
Evil == <<"mailto:", "evil", "@", "z.com">>

Organizers == {OrgA}
Attendees == {AttB, AttC}
UIDs == {"EVT-1", "EVT-2"}

(***************************************************************************)
(* MailGatewayTokensDatabase                                               *)
(***************************************************************************)

\* uuid.uuid4() of createToken: the n-th token minted, distinct from all others
uuid4(n) == "t" \o ToString(n)

Row(token, organizer, attendee, icaluid, datestamp) ==
    [token |-> token, organizer |-> organizer, attendee |-> attendee,
     icaluid |-> icaluid, datestamp |-> datestamp]

\* select ... where ORGANIZER = :1 and ATTENDEE = :2 and ICALUID = :3
RowsFor(rows, organizer, attendee, icaluid) ==
    {r \in rows : r.organizer = organizer /\ r.attendee = attendee
                  /\ r.icaluid = icaluid}

\* select ... where TOKEN = :1
RowsByToken(rows, token) == {r \in rows : r.token = token}

\* the insert of createToken; the table declares no key, so the row is simply added
createTokenRows(rows, token, organizer, attendee, icaluid, date) ==
    rows \cup {Row(token, organizer, attendee, icaluid, date)}

\* Faulty variant: the where clause is left out, some row of the table is taken.
lookupByTokenAnyRow(rows, token) ==
    IF rows = {} THEN {}
    ELSE LET r == CHOOSE x \in rows : TRUE
         IN  {<<r.organizer, r.attendee, r.icaluid>>}

\* lookupByToken: the (ORGANIZER, ATTENDEE, ICALUID) of the one row, else None
lookupByToken(rows, token) ==
    LET results == RowsByToken(rows, token)
    IN  IF Cardinality(results) # 1
        THEN {}
        ELSE {<<r.organizer, r.attendee, r.icaluid>> : r \in results}

\* Faulty variant: the select never finds the row.
getTokenValueMiss(rows, organizer, attendee, icaluid) == None

\* the select of getToken: the TOKEN of the row of the triple, None without one
getTokenValue(rows, organizer, attendee, icaluid) ==
    LET found == RowsFor(rows, organizer, attendee, icaluid)
    IN  IF found = {} THEN None ELSE (CHOOSE r \in found : TRUE).token

\* Faulty variant: the update is left out.
getTokenRowsStale(rows, token, date) == rows

\* the update of getToken: DATESTAMP = today on the rows of the token

getTokenRows(rows, token, date) ==
    IF token = None THEN rows
    ELSE {IF r.token = token THEN [r EXCEPT !.datestamp = date] ELSE r : r \in rows}

\* Faulty variant: the rows of the cutoff day go too.
purgeOldTokensRowsInclusive(rows, before) == {r \in rows : ~(r.datestamp <= before)}

\* delete from TOKENS where DATESTAMP < :1

purgeOldTokensRows(rows, before) == {r \in rows : ~(r.datestamp < before)}


(***************************************************************************)
(* String helpers of the handlers                                          *)
(***************************************************************************)

\* str.split(sep): the pieces between the occurrences of sep
RECURSIVE split(_, _)
split(text, sep) ==
    IF \A i \in 1..Len(text) : text[i] # sep
    THEN <<text>>
    ELSE LET i == CHOOSE k \in 1..Len(text) :
                      text[k] = sep /\ \A j \in 1..(k - 1) : text[j] # sep
         IN  <<SubSeq(text, 1, i - 1)>> \o split(SubSeq(text, i + 1, Len(text)), sep)

\* the string a sequence of pieces spells
RECURSIVE join(_)
join(pieces) == IF pieces = <<>> THEN "" ELSE Head(pieces) \o join(Tail(pieces))

\* str.startswith("mailto:")
startswithMailto(addr) == Len(addr) > 0 /\ Head(addr) = "mailto:"

\* Faulty variant: any number of '@' and '+' is accepted.
_extractTokenLoose(text) ==
    LET parts == split(text, "@")
        p == split(parts[1], "+")
    IN  IF Len(p) < 2 THEN None ELSE join(p[2])

\* MailHandler._extractToken: the token of pre+token@post, None on ValueError
\* (the unpacking of a split that did not give exactly two pieces)
_extractToken(text) ==
    LET parts == split(text, "@")
    IN  IF Len(parts) # 2 THEN None
        ELSE LET p == split(parts[1], "+")
             IN  IF Len(p) # 2 THEN None ELSE join(p[2])

\* Python's "not token": None and the empty string are false
notToken(token) == token = None \/ token = ""


(***************************************************************************)
(* Messages and calendar bodies                                            *)
(***************************************************************************)

\* A calendar body: whether ical.Component.fromString accepts it, whether it is
\* the empty string, its ORGANIZER (if any), its ATTENDEE values, whether it
\* has VEVENTs, its subcomponents in order (a VTIMEZONE, then two VEVENTs if
\* it has any), and which of them were given a REQUEST-STATUS 5.1.
Cal(parses, empty, hasOrg, organizer, attendees, vevent) ==
    [parses |-> parses, empty |-> empty, hasOrg |-> hasOrg, organizer |-> organizer,
     attendees |-> attendees, vevent |-> vevent,
     comps |-> IF vevent THEN <<"VTIMEZONE", "VEVENT", "VEVENT">> ELSE <<"VTIMEZONE">>,
     status |-> {}]

NoCal == Cal(FALSE, TRUE, FALSE, <<>>, {}, FALSE)

\* the masked address server+token@example.com, as ORGANIZER and as To
MaskedOrganizer(token) == <<"mailto:", "server", "+", token, "@", "example.com">>
MaskedTo(token) == <<"server", "+", token, "@", "example.com">>

\* tokens a message may carry: the ones the gateway can have minted, and a forged one
CarriedTokens == {uuid4(n) : n \in 1..2} \cup {"forged"}

CalOrganizers == {MaskedOrganizer(uuid4(1)), MaskedOrganizer("forged"), Evil}

CalBodies ==
    {Cal(TRUE, FALSE, TRUE, o, a, v) :
        o \in CalOrganizers, a \in {{}, {AttB}, {AttB, Evil}}, v \in BOOLEAN}
    \cup {Cal(TRUE, FALSE, FALSE, <<>>, a, TRUE) : a \in {{}, {AttB, Evil}}}
    \cup {Cal(FALSE, FALSE, FALSE, <<>>, {}, FALSE), NoCal}

\* the To addresses: with a token, and the shapes _extractToken has to refuse
ToAddrs ==
    {MaskedTo(t) : t \in CarriedTokens}
    \cup {<<>>,                                               \* no parsable To address
          <<"server", "@", "example.com">>,                   \* no '+'
          <<"server", "+", "@", "example.com">>,              \* empty token
          <<"server", "+", "t1", "+", "x", "@", "example.com">>,
          <<"server", "+", "t1", "@", "example.com", "@", "x">>,
          <<"server", "+", "t1">>}                            \* no '@'

Part(ctype, action, cal) == [ctype |-> ctype, action |-> action, cal |-> cal]

\* the Action line of a delivery-status part, lower-cased, in pieces (<<>>: no
\* such line): "Action: failed", "Action: delayed", "Action:failed" and
\* "Action:  failed"
ActionLines ==
    {<<>>,
     <<"action:", " ", "failed">>,
     <<"action:", " ", "delayed">>,
     <<"action:", "failed">>,
     <<"action:", " ", " ", "failed">>}

\* the parts message.walk() yields, in order; each optional part is there or not
PartsOf(report, dstatus, cals) ==
    <<Part("text/plain", <<>>, NoCal)>>
    \o (IF report THEN <<Part("multipart/report", <<>>, NoCal)>> ELSE <<>>)
    \o (IF dstatus = {} THEN <<>>
        ELSE <<Part("message/delivery-status", CHOOSE a \in dstatus : TRUE, NoCal)>>)
    \o [i \in 1..Len(cals) |-> Part("text/calendar", <<>>, cals[i])]

\* the calendar parts of a message: none, one, or two different ones
CalLists ==
    {<<>>} \cup {<<b>> : b \in CalBodies}
    \cup {<<Cal(TRUE, FALSE, TRUE, MaskedOrganizer(uuid4(1)), {AttB}, FALSE),
            Cal(TRUE, FALSE, TRUE, MaskedOrganizer(uuid4(2)), {Evil}, TRUE)>>,
          <<Cal(FALSE, FALSE, FALSE, <<>>, {}, FALSE),
            Cal(TRUE, FALSE, TRUE, MaskedOrganizer(uuid4(1)), {AttB}, TRUE)>>}

\* Messages that are no DSN (to any address), and DSNs with every Action line
Messages ==
    {[to |-> t, parts |-> PartsOf(r, d, c)] :
        t \in ToAddrs,
        r \in BOOLEAN, d \in {{}},
        c \in CalLists}
    \cup {[to |-> t, parts |-> PartsOf(TRUE, {a}, c)] :
        t \in {MaskedTo(uuid4(1)), <<"server", "@", "example.com">>},
        a \in ActionLines,
        c \in CalLists}
    \cup {[to |-> MaskedTo(uuid4(1)), parts |-> PartsOf(FALSE, {<<"action:", " ", "failed">>}, c)] :
        c \in CalLists}

(***************************************************************************)
(* MailHandler: the inbound pipeline                                       *)
(***************************************************************************)

\* What a processing step came to: fn was called (injected) with organizer,
\* attendee and calendar, body being the calendar body as the message carried
\* it; or the message was dropped (why), possibly by an exception (raised),
\* which goes up to the caller (escapes) until something catches it.
\* token is the token extracted, looked whether lookupByToken was called,
\* calls the calls of fn that were made, by kind.
Outcome(kind, injected, raised, why, token, looked, organizer, attendee, calendar, body) ==
    [kind |-> kind, injected |-> injected, raised |-> raised, escapes |-> raised,
     why |-> why, token |-> token, looked |-> looked, organizer |-> organizer,
     attendee |-> attendee, calendar |-> calendar, body |-> body,
     calls |-> IF injected THEN <<kind>> ELSE <<>>]

Dropped(kind, why, token, looked) ==
    Outcome(kind, FALSE, FALSE, why, token, looked, <<>>, <<>>, NoCal, NoCal)

Raised(kind, why, token, looked) ==
    Outcome(kind, FALSE, TRUE, why, token, looked, <<>>, <<>>, NoCal, NoCal)

\* Component.removeAllButOneAttendee: every ATTENDEE but the given one is removed
removeAllButOneAttendee(calendar, attendee) ==
    [calendar EXCEPT !.attendees = calendar.attendees \cap {attendee}]

\* getOrganizerProperty().setValue(organizer), or addProperty(ORGANIZER) without one
setOrganizer(calendar, organizer) ==
    [calendar EXCEPT !.hasOrg = TRUE, !.organizer = organizer]

\* Faulty variant: the loop over the subcomponents has no break.
addRequestStatusNoBreak(calendar) ==
    [calendar EXCEPT !.status =
        {i \in 1..Len(calendar.comps) : calendar.comps[i] = "VEVENT"}]

\* the first VEVENT gets REQUEST-STATUS 5.1; no VEVENT, no status
addRequestStatus(calendar) ==
    LET events == {i \in 1..Len(calendar.comps) : calendar.comps[i] = "VEVENT"}
    IN  [calendar EXCEPT !.status =
            IF events = {} THEN {}
            ELSE {CHOOSE i \in events : \A j \in events : i <= j}]

CalendarParts(msg) == SelectSeq(msg.parts, LAMBDA p : p.ctype = "text/calendar")

\* checkDSN: (isDSN, action, calBody); the last part of each type is the one kept
checkDSN(msg) ==
    LET has(ctype) == \E i \in 1..Len(msg.parts) : msg.parts[i].ctype = ctype
        statuses == SelectSeq(msg.parts, LAMBDA p : p.ctype = "message/delivery-status")
        cals == CalendarParts(msg)
        line == statuses[Len(statuses)].action
        words == split(line, " ")
    IN  IF has("multipart/report") /\ Len(statuses) > 0
        THEN [isDSN |-> TRUE,
              raised |-> line # <<>> /\ Len(words) < 2,    \* IndexError of split(' ')[1]
              action |-> IF line # <<>> /\ Len(words) >= 2 THEN join(words[2]) ELSE None,
              hasCal |-> Len(cals) > 0 /\ ~cals[Len(cals)].cal.empty,
              calBody |-> IF Len(cals) > 0 THEN cals[Len(cals)].cal ELSE NoCal]
        ELSE [isDSN |-> FALSE, raised |-> FALSE, action |-> None,
              hasCal |-> FALSE, calBody |-> NoCal]

\* processDSN: the token comes from the ORGANIZER of the returned calendar body
processDSN(calBody, rows) ==
    IF ~calBody.parses THEN Raised("bounce", "calendar does not parse", None, FALSE)
    ELSE IF ~calBody.hasOrg THEN Raised("bounce", "no organizer", None, FALSE)
    ELSE LET token == _extractToken(calBody.organizer)
             result == lookupByToken(rows, token)
         IN  IF notToken(token) THEN Dropped("bounce", "no token", token, FALSE)
             ELSE IF result = {} THEN Dropped("bounce", "unknown token", token, TRUE)
             ELSE LET rec == CHOOSE x \in result : TRUE
                      organizer == rec[1]
                      attendee == rec[2]
                  IN  Outcome("bounce", TRUE, FALSE, "", token, TRUE, organizer, attendee,
                          addRequestStatus(setOrganizer(
                              removeAllButOneAttendee(calBody, attendee), organizer)),
                          calBody)

\* Faulty variant: the lookup miss is not tested, an unknown token goes on.
processReplyNoMissTest(msg, rows) ==
    LET token == _extractToken(msg.to)
        cals == CalendarParts(msg)
        result == lookupByToken(rows, token)
    IN  IF msg.to = <<>> \/ notToken(token) \/ Len(cals) = 0 \/ ~cals[1].cal.parses
        THEN Dropped("reply", "dropped", token, FALSE)
        ELSE LET rec == IF result = {} THEN <<Evil, Evil, "">> ELSE CHOOSE x \in result : TRUE
             IN  Outcome("reply", TRUE, FALSE, "", token, TRUE, rec[1], rec[2],
                     setOrganizer(removeAllButOneAttendee(cals[1].cal, rec[2]), rec[1]),
                     cals[1].cal)

\* processReply: the token comes from the To address, the calendar body is
\* the first text/calendar part
processReply(msg, rows) ==
    LET token == _extractToken(msg.to)
        cals == CalendarParts(msg)
        result == lookupByToken(rows, token)
    IN  IF msg.to = <<>> THEN Dropped("reply", "no To address", None, FALSE)
        ELSE IF notToken(token) THEN Dropped("reply", "no token", token, FALSE)
        ELSE IF Len(cals) = 0 THEN Dropped("reply", "no calendar part", token, FALSE)
        ELSE IF ~cals[1].cal.parses
             THEN Raised("reply", "calendar does not parse", token, FALSE)
        ELSE IF result = {} THEN Dropped("reply", "unknown token", token, TRUE)
        ELSE LET rec == CHOOSE x \in result : TRUE
                 organizer == rec[1]
                 attendee == rec[2]
             IN  Outcome("reply", TRUE, FALSE, "", token, TRUE, organizer, attendee,
                     setOrganizer(removeAllButOneAttendee(cals[1].cal, attendee),
                                  organizer),
                     cals[1].cal)

\* Faulty variant: the DSN branch does not return, a message handled as a
\* bounce is handled as a reply too.
inboundFallThrough(msg, rows) ==
    LET dsn == checkDSN(msg)
        first == IF dsn.raised THEN Raised("dsn", "no action value", None, FALSE)
                 ELSE IF dsn.isDSN
                      THEN IF dsn.action = "failed" /\ dsn.hasCal
                           THEN processDSN(dsn.calBody, rows)
                           ELSE Dropped("dsn", "DSN without enough to go on", None, FALSE)
                 ELSE processReply(msg, rows)
        second == IF dsn.isDSN /\ ~dsn.raised /\ ~first.raised
                  THEN processReply(msg, rows).calls ELSE <<>>
    IN  [first EXCEPT !.escapes = FALSE, !.calls = @ \o second]

\* Faulty variant: no try/except around the processing.
inboundNoCatch(msg, rows) ==
    LET dsn == checkDSN(msg)
    IN  IF dsn.raised THEN Raised("dsn", "no action value", None, FALSE)
        ELSE IF dsn.isDSN
             THEN IF dsn.action = "failed" /\ dsn.hasCal
                  THEN processDSN(dsn.calBody, rows)
                  ELSE Dropped("dsn", "DSN without enough to go on", None, FALSE)
        ELSE processReply(msg, rows)

\* MailHandler.inbound: a DSN is handled as a bounce or dropped, anything else
\* is handled as a reply; every exception is caught and logged, and None is
\* returned
inbound(msg, rows) ==
    LET dsn == checkDSN(msg)
        tried == IF dsn.raised THEN Raised("dsn", "no action value", None, FALSE)
                 ELSE IF dsn.isDSN
                      THEN IF dsn.action = "failed" /\ dsn.hasCal
                           THEN processDSN(dsn.calBody, rows)
                           ELSE Dropped("dsn", "DSN without enough to go on", None, FALSE)
                 ELSE processReply(msg, rows)
    IN  [tried EXCEPT !.escapes = FALSE]


(***************************************************************************)
(* MailHandler and its token table: the handlers                           *)
(***************************************************************************)

\* config.Scheduling.iMIP.Sending.Address
ServerAddress == <<"server", "@", "example.com">>

\* "%s+%s@%s" % (pre, token, post) of outbound
addressWithToken(token) ==
    LET parts == split(ServerAddress, "@")
    IN  parts[1] \o <<"+", token, "@">> \o parts[2]

Triple(organizer, attendee, icaluid) ==
    [organizer |-> organizer, attendee |-> attendee, icaluid |-> icaluid]

Triples == {Triple(o, a, u) : o \in Organizers, a \in Attendees, u \in UIDs}

Sessions == 1..NumSessions

Idle == [state |-> "idle", triple |-> Triple(<<>>, <<>>, ""), token |-> None]

\* the entry of given for a triple (None: outbound never ran for it)
GivenToken(triple) ==
    IF triple \in DOMAIN given THEN given[triple].token ELSE None

\* settings['Receiving']['Type'], letter by letter: "POP3", "imap", "EWS"
MailTypes == {<<"P", "O", "P", "3">>, <<"i", "m", "a", "p">>, <<"E", "W", "S">>}

\* str.lower() on the letters of the mail types
lower(text) ==
    [i \in 1..Len(text) |->
        CASE text[i] = "P" -> "p" [] text[i] = "O" -> "o" [] text[i] = "E" -> "e"
          [] text[i] = "W" -> "w" [] text[i] = "S" -> "s" [] OTHER -> text[i]]

\* str.startswith(prefix)
startswith(text, prefix) ==
    Len(text) >= Len(prefix) /\ SubSeq(text, 1, Len(prefix)) = prefix

\* makeService with iMIP enabled, after MailHandler(): what it returns in the
\* MultiService (the mail client, the IScheduleService with the inbox),
\* whether it raised, and the level of what it logged
makeService(mailType) ==
    IF startswith(lower(mailType), <<"p", "o", "p">>)
    THEN [raised |-> FALSE, client |-> "POP3", inbox |-> TRUE, logged |-> "info"]
    ELSE IF startswith(lower(mailType), <<"i", "m", "a", "p">>)
    THEN [raised |-> FALSE, client |-> "IMAP4", inbox |-> TRUE, logged |-> "info"]
    ELSE [raised |-> FALSE, client |-> None, inbox |-> FALSE, logged |-> "error"]

\* Faulty variant: the handler is constructed without the purge.
StartWithNoPurge(mailType) ==
    LET made == makeService(mailType)
    IN  /\ ~running
        /\ running' = made.inbox
        /\ tokens' = disk
        /\ last' = [op |-> "start", before |-> today - days, pre |-> disk,
                    mailType |-> mailType, made |-> made]
        /\ UNCHANGED <<disk, today, days, minted, sess, given, notMail>>

\* makeService: MailHandler.__init__ opens the table and purges what is older
\* than InvitationDaysToLive days (purgeOldTokens commits); then the services
\* are built after the mail type.  With an invalid type the MultiService is
\* returned empty: the process is up, with no handler anything can call.
StartWith(mailType) ==
    LET made == makeService(mailType)
        purged == purgeOldTokensRows(disk, today - days)
    IN  /\ ~running
        /\ running' = made.inbox
        /\ tokens' = purged
        /\ disk' = purged
        /\ last' = [op |-> "start", before |-> today - days, pre |-> disk,
                    mailType |-> mailType, made |-> made]
        /\ UNCHANGED <<today, days, minted, sess, given, notMail>>

\* the start of a gateway configured for POP3
Start == StartWith(<<"P", "O", "P", "3">>)

\* The process ends; what the connection had not committed is rolled back and
\* the requests it had not answered are gone.
Stop ==
    /\ running
    /\ running' = FALSE
    /\ tokens' = disk
    /\ sess' = [s \in Sessions |-> Idle]
    /\ last' = [op |-> "stop", pre |-> tokens]
    /\ UNCHANGED <<disk, today, days, minted, given, notMail>>

\* A day passes.
Tick ==
    /\ today < MaxDay
    /\ today' = today + 1
    /\ last' = [op |-> "tick"]
    /\ UNCHANGED <<running, tokens, disk, days, minted, sess, given, notMail>>

\* The calendar object of an outbound request: the UID of its master
\* component, its METHOD, its ORGANIZER value and its ATTENDEE values.
Invitation(uid, method, organizer, attendees) ==
    [uid |-> uid, method |-> method, organizer |-> organizer, attendees |-> attendees]

\* the request of an organizer for one attendee, as the scheduling server posts it
PostedRequest(organizer, attendee, icaluid) ==
    Invitation(icaluid, "REQUEST", organizer, {attendee})

\* the requests composed in SpecCompose: both methods for every UID, and a
\* request with an ATTENDEE property of the organizer
Invitations ==
    {Invitation(u, m, OrgA, {AttB}) : u \in UIDs, m \in {"REQUEST", "CANCEL"}}
    \cup {Invitation("EVT-1", "REQUEST", OrgA, {AttB, OrgA})}

\* Faulty variant: the ATTENDEE property of the organizer is left as it is.
maskOrganizerOnly(calendar, organizer, masked) ==
    [calendar EXCEPT !.organizer = masked]

\* outbound: the ORGANIZER value, and the ATTENDEE property of the organizer
\* when there is one, are set to mailto:addressWithToken
maskOrganizer(calendar, organizer, masked) ==
    [calendar EXCEPT !.organizer = masked,
                     !.attendees = {IF x = organizer THEN masked ELSE x : x \in @}]

\* Faulty variant: an update is never told from an invitation.
formatStringNoUpdate(canceled, newInvitation) ==
    IF canceled THEN "Event canceled" ELSE "Event invitation"

\* generateEmail: the format string of the subject (and the invite label)
formatString(canceled, newInvitation) ==
    IF canceled THEN "Event canceled"
    ELSE IF newInvitation THEN "Event invitation"
    ELSE "Event update"

\* generateEmail: the headers, the subject and the icalendar attachment
generateEmail(newInvitation, calendar, fromAddress, replyToAddress, toAddress) ==
    [From |-> fromAddress, ReplyTo |-> replyToAddress, To |-> toAddress,
     Subject |-> formatString(calendar.method = "CANCEL", newInvitation),
     ical |-> calendar]

\* no message was composed
NoMessage == [Subject |-> None]

\* MailHandler.outbound: getToken, then createToken (which commits) when there
\* is none; the ORGANIZER is masked; the ValueError for an attendee that is
\* no mailto: address comes after that; then the mail is generated and handed
\* to the SMTP sender, whose deferred gets the two logging callbacks.
outbound(organizer, attendee, calendar) ==
    LET icaluid == calendar.uid
        found == getTokenValue(tokens, organizer, attendee, icaluid)
        refreshed == getTokenRows(tokens, found, today)
        newInvitation == found = None
        token == IF newInvitation THEN uuid4(minted + 1) ELSE found
        raised == ~startswithMailto(attendee)
        triple == Triple(organizer, attendee, icaluid)
        masked == maskOrganizer(calendar, organizer, <<"mailto:">> \o addressWithToken(token))
        fromAddr == IF startswithMailto(organizer) THEN Tail(organizer) ELSE ServerAddress
        message == generateEmail(newInvitation, masked, fromAddr,
                                 addressWithToken(token), Tail(attendee))
    IN  /\ running
        /\ newInvitation => minted < MaxTokens
        /\ tokens' = IF newInvitation
                      THEN createTokenRows(refreshed, token, organizer, attendee,
                                           icaluid, today)
                      ELSE refreshed
        /\ disk' = IF newInvitation THEN tokens' ELSE disk
        /\ minted' = IF newInvitation THEN minted + 1 ELSE minted
        /\ given' = [t \in DOMAIN given \cup {triple} |->
                        IF t = triple THEN [token |-> token, date |-> today]
                        ELSE given[t]]
        /\ last' = [op |-> "outbound", organizer |-> organizer, attendee |-> attendee,
                    icaluid |-> icaluid, token |-> token,
                    newInvitation |-> newInvitation, raised |-> raised,
                    sent |-> ~raised, replyTo |-> addressWithToken(token),
                    method |-> calendar.method, calendar |-> calendar,
                    message |-> IF raised THEN NoMessage ELSE message,
                    date |-> today, pre |-> tokens, preDisk |-> disk,
                    prev |-> GivenToken(triple)]
        /\ UNCHANGED <<running, today, days, notMail>>

\* A composition that no POST session is waiting for.
Outbound(organizer, attendee, calendar) ==
    /\ outbound(organizer, attendee, calendar)
    /\ UNCHANGED sess

\* A scheduling server opens a POST to /inbox for a triple; the request is
\* pending until the reactor runs its render_POST.
Post(s, triple) ==
    /\ running
    /\ sess[s].state = "idle"
    /\ sess' = [sess EXCEPT ![s] = [state |-> "pending", triple |-> triple, token |-> None]]
    /\ last' = [op |-> "post"]
    /\ UNCHANGED <<running, tokens, disk, today, days, minted, given, notMail>>

\* IScheduleInbox.render_POST of a pending request: outbound, run to its end
render_POST(s) ==
    /\ sess[s].state = "pending"
    /\ outbound(sess[s].triple.organizer, sess[s].triple.attendee,
                PostedRequest(sess[s].triple.organizer, sess[s].triple.attendee,
                         sess[s].triple.icaluid))
    /\ sess' = [sess EXCEPT ![s].state = "done", ![s].token = last'.token]

\* The answered request is closed.
Close(s) ==
    /\ sess[s].state = "done"
    /\ sess' = [sess EXCEPT ![s] = Idle]
    /\ last' = [op |-> "close"]
    /\ UNCHANGED <<running, tokens, disk, today, days, minted, given, notMail>>

\* MailGatewayTokensDatabase.lookupByToken, the table access of inbound
Lookup(token) ==
    /\ running
    /\ last' = [op |-> "lookup", token |-> token, result |-> lookupByToken(tokens, token)]
    /\ UNCHANGED <<running, tokens, disk, today, days, minted, sess, given, notMail>>

\* What the message is, read off its parts and its To address without the
\* handler: the types it has, the value of its Action field, and whether the
\* address is prefix+token@domain with one '@', one '+' and a token
Seen(msg) ==
    LET has(ctype) == \E i \in 1..Len(msg.parts) : msg.parts[i].ctype = ctype
        statuses == SelectSeq(msg.parts, LAMBDA p : p.ctype = "message/delivery-status")
        line == statuses[Len(statuses)].action
        count(c) == Cardinality({i \in 1..Len(msg.to) : msg.to[i] = c})
        plus == CHOOSE i \in 1..Len(msg.to) : msg.to[i] = "+"
        at == CHOOSE i \in 1..Len(msg.to) : msg.to[i] = "@"
    IN  [report |-> has("multipart/report"),
         status |-> has("message/delivery-status"),
         action |-> IF Len(statuses) = 0 \/ line = <<>> THEN None
                    ELSE join(SelectSeq(Tail(line), LAMBDA w : w # " ")),
         calendar |-> has("text/calendar"),
         token |-> IF count("@") = 1 /\ count("+") = 1 /\ plus + 1 < at
                   THEN join(SubSeq(msg.to, plus + 1, at - 1)) ELSE None]

\* what checkDSN returned is a bounce that can be acted on, the returned
\* calendar parses and names an ORGANIZER whose token is in the table
BounceReady(dsn, rows) ==
    /\ dsn.isDSN /\ ~dsn.raised /\ dsn.action = "failed" /\ dsn.hasCal
    /\ dsn.calBody.parses /\ dsn.calBody.hasOrg
    /\ \E r \in rows : dsn.calBody.organizer = MaskedOrganizer(r.token)

\* the message is no DSN, its To address carries a token of the table and its
\* calendar part parses
ReplyReady(dsn, msg, rows) ==
    /\ ~dsn.isDSN
    /\ \E r \in rows : msg.to = MaskedTo(r.token)
    /\ \E i \in 1..Len(msg.parts) :
          /\ msg.parts[i].ctype = "text/calendar"
          /\ msg.parts[i].cal.parses
          /\ \A j \in 1..(i - 1) : msg.parts[j].ctype # "text/calendar"

\* what a message is for the handler and the table, before it is handled
Ready(msg, rows) ==
    LET dsn == checkDSN(msg)
    IN  [bounce |-> BounceReady(dsn, rows), reply |-> ReplyReady(dsn, msg, rows),
         addressed |-> \E r \in rows : msg.to = MaskedTo(r.token)]

\* Faulty variant: the row a message resolved is deleted with its use.
InboundConsuming(msg) ==
    LET out == inbound(msg, tokens)
        left == {r \in tokens : ~(out.injected /\ r.token = out.token)}
    IN  /\ running
        /\ last' = [op |-> "inbound", out |-> out, seen |-> Seen(msg),
                    ready |-> Ready(msg, tokens)]
        /\ tokens' = left
        /\ disk' = left
        /\ UNCHANGED <<running, today, days, minted, sess, given, notMail>>

\* MailHandler.inbound on one message, fn being injectMessage
Inbound(msg) ==
    /\ running
    /\ last' = [op |-> "inbound", out |-> inbound(msg, tokens), seen |-> Seen(msg),
                ready |-> Ready(msg, tokens)]
    /\ UNCHANGED <<running, tokens, disk, today, days, minted, sess, given, notMail>>

\* no injection under way
NoInjection == [phase |-> "idle"]

\* settings["PollingSeconds"]
PollingSeconds == 30

\* a session: how its connection attempt and its login came out, whether the
\* mailbox was listed (and listed again), how the session ended, and the
\* commands it tried to log in with, in order
Notes(connect, login, listed, ended) ==
    [connect |-> connect, login |-> login, listed |-> listed, relisted |-> FALSE,
     ended |-> ended, tried |-> <<>>]

\* the poller before its service is started (and in the specifications that
\* leave it out)
NoPoller ==
    /\ proto = "POP3"
    /\ mbox = {}
    /\ kinds = <<>>
    /\ marked = {}
    /\ pc = "stopped"
    /\ cmdq = <<>>
    /\ uids = <<>>
    /\ cur = 0
    /\ injs = <<>>
    /\ delAt = {}
    /\ fetched = <<>>
    /\ timer = <<>>
    /\ sn = Notes("none", "none", FALSE, "none")
    /\ cycles = 0
    /\ svc = "new"

Init ==
    /\ inj = NoInjection
    /\ NoPoller
    /\ running = FALSE
    /\ tokens = {}
    /\ disk = {}
    /\ today = 0
    /\ days \in 1..MaxDaysToLive
    /\ minted = 0
    /\ sess = [s \in Sessions |-> Idle]
    /\ given = <<>>
    /\ last = [op |-> "init"]

\* The requests posted to the gateway: two events for the mailto: attendee,
\* one for the attendee whose address is no mailto:
MailRequests == {<<OrgA, AttB, "EVT-1">>, <<OrgA, AttB, "EVT-2">>, <<OrgA, AttC, "EVT-1">>}

Next ==
    \/ Start
    \/ Stop
    \/ Tick
    \/ \E r \in MailRequests : Outbound(r[1], r[2], PostedRequest(r[1], r[2], r[3]))
    \/ \E n \in 1..MaxTokens : Lookup(uuid4(n))

Spec == Init /\ [][Next]_vars

\* The gateway within one run and one day: compositions and arriving messages.
InitMail ==
    /\ inj = NoInjection
    /\ NoPoller
    /\ running = TRUE
    /\ tokens = {}
    /\ disk = {}
    /\ today = 0
    /\ days = 1
    /\ minted = 0
    /\ sess = [s \in Sessions |-> Idle]
    /\ given = <<>>
    /\ last = [op |-> "start", before |-> -1, pre |-> {},
               mailType |-> <<"P", "O", "P", "3">>, made |-> makeService(<<"P", "O", "P", "3">>)]

NextMail ==
    \/ \E r \in MailRequests : Outbound(r[1], r[2], PostedRequest(r[1], r[2], r[3]))
    \/ \E msg \in Messages : Inbound(msg)

SpecMail == InitMail /\ [][NextMail]_vars

\* The gateway over days, composing requests of both methods.
InitCompose ==
    /\ Init
    /\ days = 1

NextCompose ==
    \/ \E mailType \in MailTypes : StartWith(mailType)
    \/ Stop
    \/ Tick
    \/ \E o \in Organizers, a \in Attendees, c \in Invitations : Outbound(o, a, c)

SpecCompose == InitCompose /\ [][NextCompose]_vars

\* The gateway within one run and one day: concurrent POST sessions and lookups.
NextSessions ==
    \/ \E s \in Sessions, t \in Triples : Post(s, t)
    \/ \E s \in Sessions : render_POST(s)
    \/ \E s \in Sessions : Close(s)
    \/ \E n \in 1..MaxTokens : Lookup(uuid4(n))

SpecSessions == InitMail /\ [][NextSessions]_vars

(***************************************************************************)
(* injectMessage and AuthorizedHTTPGetter: one injection                   *)
(***************************************************************************)

\* url of injectMessage, from config (HTTPPort, MailGatewayServer)
InboxURL == "http://localhost:8008/inbox/"

\* config.Scheduling.iMIP.Username and Password, when configured
Username == "gateway"
Password == "secret"

\* a string as an operand of a hash
Str(x) == [str |-> x]

\* algorithms[alg]() fed with the fields joined by ':', then hexdigest
H(alg, fields) == [hash |-> alg, of |-> fields]

\* the keys of the algorithms dict
algorithms == {"md5", "md5-sess", "sha"}

\* "%s" % v
pystr(v) == IF v = None THEN "None" ELSE v

\* the parameters of a Digest challenge, None for each one not given
Details(realm, nonce, qop, algorithm) ==
    [realm |-> realm, nonce |-> nonce, qop |-> qop, algorithm |-> algorithm,
     cnonce |-> None, nc |-> None]

NoDetails == Details(None, None, None, None)

DetailKeys == {"realm", "nonce", "qop", "algorithm", "cnonce", "nc"}

\* one WWW-Authenticate value: how it starts, and its parameters
Item(prefix, details) == [prefix |-> prefix, details |-> details]

\* the WWW-Authenticate values a 401 may carry
Challenges ==
    {<<Item("Digest ", Details("x", "n", "auth", None))>>,
     <<Item("digest ", Details("x", "n", "auth", None))>>,
     <<Item("digest ", Details("x", "n", "auth", "md5"))>>,
     <<Item("digest ", Details("x", "n", None, "md5"))>>,
     <<Item("digest ", Details("x", "n", "auth", "MD5"))>>,
     <<Item("digest ", Details("x", "n", "auth", "md5-sess"))>>,
     <<Item("digest ", Details("x", "n", "auth-int", "sha"))>>,
     <<Item("basic ", NoDetails)>>,
     <<Item("Basic ", NoDetails)>>,
     <<Item("digest ", Details("x", "n", "auth", "md5")), Item("basic ", NoDetails)>>,
     <<Item("basic ", NoDetails), Item("digest ", Details("x", "n", None, "sha"))>>,
     <<Item("digest ", Details("x", "n", "auth", None)), Item("basic ", NoDetails)>>,
     <<Item("digest ", [Details("x", "n", "auth", "md5") EXCEPT !.cnonce = "c", !.nc = "00000001"])>>,
     <<Item("negotiate ", NoDetails)>>}

\* the details dict after the loop over the values: each "digest " value
\* overwrites the keys it gives
RECURSIVE detailsOf(_)
detailsOf(wwwauth) ==
    IF wwwauth = <<>> THEN NoDetails
    ELSE LET before == detailsOf(SubSeq(wwwauth, 1, Len(wwwauth) - 1))
             item == wwwauth[Len(wwwauth)]
         IN  IF item.prefix = "digest "
             THEN [k \in DetailKeys |->
                      IF item.details[k] # None THEN item.details[k] ELSE before[k]]
             ELSE before

available(wwwauth, prefix) == \E i \in 1..Len(wwwauth) : wwwauth[i].prefix = prefix

\* calcHA1 without preHA1: raised stands for the KeyError of an unknown
\* algorithm and the TypeError of update(None)
calcHA1(pszAlg, pszUserName, pszRealm, pszPassword, pszNonce, pszCNonce) ==
    LET first == H(pszAlg, <<Str(pszUserName), Str(pszRealm), Str(pszPassword)>>)
    IN  IF pszAlg \notin algorithms \/ pszRealm = None
        THEN [raised |-> TRUE, value |-> first]
        ELSE IF pszAlg = "md5-sess"
             THEN [raised |-> pszNonce = None \/ pszCNonce = None,
                   value |-> H(pszAlg, <<first, Str(pszNonce), Str(pszCNonce)>>)]
             ELSE [raised |-> FALSE, value |-> first]

\* calcResponse: H(HA1:nonce:[nc:cnonce:qop:]HA2) with HA2 = H(method:uri)
calcResponse(HA1, algo, pszNonce, pszNonceCount, pszCNonce, pszQop, pszMethod, pszDigestUri) ==
    LET HA2 == H(algo, <<Str(pszMethod), Str(pszDigestUri)>>)
        withQop == pszNonceCount # None /\ pszCNonce # None /\ pszQop # None
    IN  [raised |-> algo \notin algorithms \/ pszQop = "auth-int" \/ pszNonce = None,
         value |-> IF withQop
                   THEN H(algo, <<HA1, Str(pszNonce), Str(pszNonceCount), Str(pszCNonce),
                                  Str(pszQop), HA2>>)
                   ELSE H(algo, <<HA1, Str(pszNonce), HA2>>)]

\* the Authorization header values
NoAuthorization == [scheme |-> None]

DigestAuthorization(details, digest) ==
    [scheme |-> "Digest", username |-> Username, realm |-> pystr(details.realm),
     nonce |-> pystr(details.nonce), uri |-> InboxURL, response |-> digest,
     algorithm |-> pystr(details.algorithm),
     hasQop |-> details.qop # None,
     cnonce |-> IF details.qop # None THEN pystr(details.cnonce) ELSE "",
     qop |-> IF details.qop # None THEN pystr(details.qop) ELSE "",
     nc |-> IF details.qop # None THEN pystr(details.nc) ELSE ""]

BasicAuthorization == [scheme |-> "Basic", userpass |-> <<Username, ":", Password>>]

\* Faulty variant: the two address headers are exchanged.
RequestExchanged(f) ==
    [url |-> InboxURL, method |-> "POST", contentType |-> "text/calendar",
     originator |-> f.organizer, recipient |-> f.attendee, body |-> f.calendar,
     authorization |-> f.authorization]

\* the POST the factory sends on a connection
Request(f) ==
    [url |-> InboxURL, method |-> "POST", contentType |-> "text/calendar",
     originator |-> f.attendee, recipient |-> f.organizer, body |-> f.calendar,
     authorization |-> f.authorization]

\* Faulty variant: _failure hands the failure on, and the callback the caller
\* added to the deferred is passed over.
errbackPassedOn(f, reason) == [f EXCEPT !.phase = "done", !.result = "failure", !.reason = reason]

\* the deferred fires its errback; _failure logs the reason and swallows it,
\* so the callback the caller added to the returned deferred (cbFlagDeleted
\* of the IMAP4 poller) runs next
errback(f, reason) ==
    [f EXCEPT !.phase = "done", !.result = "failure", !.reason = reason, !.acked = TRUE]

\* Faulty variant: the retried flag is not tested, every 401 is answered by
\* another attempt.
handleStatus_401NoRetriedTest(f, wwwauth) ==
    IF ~f.creds THEN errback(f, "Unauthorized")
    ELSE IF available(wwwauth, "digest ") \/ available(wwwauth, "basic ")
         THEN [f EXCEPT !.retried = TRUE, !.phase = "connecting",
                        !.authorization = BasicAuthorization]
    ELSE errback(f, "Unauthorized")

\* Faulty variant: the factory's username is not tested, the retry is made
\* with whatever credentials there are.
handleStatus_401NoCredsTest(f, wwwauth) ==
    IF f.retried THEN errback(f, "Unauthorized")
    ELSE IF available(wwwauth, "digest ") \/ available(wwwauth, "basic ")
         THEN [f EXCEPT !.retried = TRUE, !.phase = "connecting",
                        !.authorization = BasicAuthorization]
    ELSE errback([f EXCEPT !.retried = TRUE], "Unauthorized")

\* AuthorizedHTTPGetter.handleStatus_401
handleStatus_401(f, wwwauth) ==
    LET details == detailsOf(wwwauth)
        HA1 == calcHA1(details.algorithm, Username, details.realm, Password,
                       details.nonce, details.cnonce)
        digest == calcResponse(HA1.value, details.algorithm, details.nonce, details.nc,
                               details.cnonce, details.qop, "POST", InboxURL)
        g == [f EXCEPT !.retried = TRUE]
    IN  IF ~f.creds THEN errback(f, "Unauthorized")
        ELSE IF f.retried THEN errback(f, "Unauthorized")
        ELSE IF available(wwwauth, "digest ") /\ details # NoDetails
             THEN IF HA1.raised \/ digest.raised
                  \* the exception leaves the handler; the connection was closed
                  \* with quietLoss set and nothing fires the deferred
                  THEN [g EXCEPT !.phase = "lost", !.raised = TRUE]
                  ELSE [g EXCEPT !.phase = "connecting",
                                 !.authorization = DigestAuthorization(details, digest.value)]
        ELSE IF available(wwwauth, "basic ")
             THEN [g EXCEPT !.phase = "connecting", !.authorization = BasicAuthorization]
        ELSE errback(g, "Unauthorized")

\* an answer of the calendar server: its status and WWW-Authenticate values
Answer(status, wwwauth) == [status |-> status, wwwauth |-> wwwauth]

\* injectMessage: the factory is built and the connection started
InjectMessage(creds, organizer, attendee, calendar) ==
    /\ inj.phase = "idle"
    /\ inj' = [phase |-> "connecting", creds |-> creds, retried |-> FALSE,
               authorization |-> NoAuthorization, posts |-> <<>>,
               result |-> "pending", reason |-> "", raised |-> FALSE,
               challenge |-> <<>>, answers |-> <<>>, acked |-> FALSE,
               organizer |-> organizer, attendee |-> attendee,
               calendar |-> calendar]
    /\ UNCHANGED <<mailVars, pollVars>>

\* The connection is up: the POST goes out.
Connected ==
    /\ inj.phase = "connecting"
    /\ inj' = [inj EXCEPT !.phase = "waiting", !.posts = Append(@, Request(inj))]
    /\ UNCHANGED <<mailVars, pollVars>>

\* clientConnectionFailed: refused, or timed out
ConnectionFailed ==
    /\ inj.phase = "connecting"
    /\ inj' = errback(inj, "TransientNetwork")
    /\ UNCHANGED <<mailVars, pollVars>>

\* The connection is lost before the answer.
ConnectionLost ==
    /\ inj.phase = "waiting"
    /\ inj' = errback(inj, "TransientNetwork")
    /\ UNCHANGED <<mailVars, pollVars>>

\* A 200 answer: the deferred fires _success, then the caller's callback.
Status200 ==
    /\ inj.phase = "waiting"
    /\ inj' = [inj EXCEPT !.phase = "done", !.result = "success", !.acked = TRUE,
                          !.answers = Append(@, Answer("200", <<>>))]
    /\ UNCHANGED <<mailVars, pollVars>>

\* A 401 answer with its WWW-Authenticate values.
Status401(wwwauth) ==
    /\ inj.phase = "waiting"
    /\ inj' = [handleStatus_401(inj, wwwauth) EXCEPT
                   !.challenge = wwwauth,
                   !.answers = Append(@, Answer("401", wwwauth))]
    /\ UNCHANGED <<mailVars, pollVars>>

\* Any other answer: handleStatusDefault, then noPage.
StatusOther ==
    /\ inj.phase = "waiting"
    /\ inj' = [errback(inj, "Rejected") EXCEPT !.answers = Append(@, Answer("other", <<>>))]
    /\ UNCHANGED <<mailVars, pollVars>>

\* The injection is over (or its deferred is never going to fire); the next
\* one can start.
Forget ==
    /\ inj.phase \in {"done", "lost"}
    /\ inj' = NoInjection
    /\ UNCHANGED <<mailVars, pollVars>>

InitInject ==
    /\ InitMail

NextInject ==
    \/ \E creds \in BOOLEAN, a \in Attendees,
          c \in {x \in CalBodies : x.parses /\ x.hasOrg /\ x.attendees = {AttB}} :
           InjectMessage(creds, OrgA, a, setOrganizer(removeAllButOneAttendee(c, a), OrgA))
    \/ Connected
    \/ ConnectionFailed
    \/ ConnectionLost
    \/ Status200
    \/ \E wwwauth \in Challenges : Status401(wwwauth)
    \/ StatusOther
    \/ Forget

SpecInject == InitInject /\ [][NextInject]_vars

(***************************************************************************)
(* The mailbox pollers: POP3DownloadProtocol/Factory, IMAP4Download...     *)
(***************************************************************************)

\* how the injection of a polled message can end: _success, or _failure with
\* the reason of the errback
InjectionEnds == {"ok", "net", "rejected", "unauthorized"}

\* the messages in the mailbox, in the order the server lists them
RECURSIVE listing(_)
listing(set) ==
    IF set = {} THEN <<>>
    ELSE LET m == CHOOSE x \in set : \A y \in set : x <= y
         IN  <<m>> \o listing(set \ {m})

Cmd(name, m) == [name |-> name, m |-> m]

\* the token table at the time the mailbox is polled
PolledTable == {Row(uuid4(1), OrgA, AttB, "EVT-1", 0)}

\* what mailer.inbound does with a message, as its caller sees it: it starts an
\* injection and returns its deferred ("inject"), it drops the message and
\* returns None ("drop"), it catches an exception, logs it and returns None
\* ("caught"), or an exception leaves it ("raise")
KindOf(out) ==
    IF out.escapes THEN "raise"
    ELSE IF out.injected THEN "inject"
    ELSE IF out.raised THEN "caught"
    ELSE "drop"

\* the kinds of the messages a mailbox can hold
Kinds == {KindOf(inbound(msg, PolledTable)) : msg \in Messages}

\* factory.handleMessage -> mailer.inbound; injs tracks the latest injection
\* started for the message
handleMessage(m) ==
    [injs EXCEPT ![m] = IF kinds[m] = "inject" THEN "inflight" ELSE "none"]

\* Faulty variant: the delay grows with the number of attempts.
retryBackoff == timer' = Append(timer, PollingSeconds * cycles)

\* factory.retry: reactor.callLater(PollingSeconds, reconnector)
retry == timer' = Append(timer, PollingSeconds)

\* what a session keeps is gone with its protocol instance
SessionOver ==
    /\ cmdq' = <<>>
    /\ uids' = <<>>
    /\ cur' = 0

\* A message arrives in the mailbox.
Arrive(k) ==
    LET m == Len(kinds) + 1
    IN  /\ pc # "stopped"
        /\ m <= MaxMail
        /\ mbox' = mbox \cup {m}
        /\ kinds' = Append(kinds, k)
        /\ injs' = Append(injs, "none")
        /\ UNCHANGED <<svc, proto, marked, pc, cmdq, uids, cur, delAt, fetched, timer, sn, cycles>>
        /\ UNCHANGED <<mailVars, inj>>

\* POP3Service/IMAP4Service.startService: the client connects
StartService(type) ==
    /\ pc = "stopped"
    /\ proto' = type
    /\ pc' = "connecting"
    /\ cycles' = 1
    /\ svc' = "started"
    /\ UNCHANGED <<mbox, kinds, marked, cmdq, uids, cur, injs, delAt, fetched, timer, sn>>
    /\ UNCHANGED <<mailVars, inj>>

\* clientConnectionFailed: retry
ConnectFailed ==
    /\ pc = "connecting"
    /\ pc' = "disconnected"
    /\ retry
    /\ delAt' = {}
    /\ fetched' = <<>>
    /\ sn' = Notes("failed", "none", FALSE, "none")
    /\ UNCHANGED <<svc, proto, mbox, kinds, marked, cmdq, uids, cur, injs, cycles>>
    /\ UNCHANGED <<mailVars, inj>>

\* buildProtocol: a new protocol instance, waiting for the server greeting
ConnectionMade ==
    /\ pc = "connecting"
    /\ pc' = "greeting"
    /\ delAt' = {}
    /\ fetched' = <<>>
    /\ sn' = Notes("made", "none", FALSE, "none")
    /\ UNCHANGED <<svc, proto, mbox, kinds, marked, cmdq, uids, cur, injs, timer, cycles>>
    /\ UNCHANGED <<mailVars, inj>>

\* reconnector, called by the reactor when the nextPoll timer expires
Reconnect ==
    /\ timer # <<>>
    /\ pc = "disconnected"
    /\ cycles < MaxCycles
    /\ timer' = Tail(timer)
    /\ pc' = "connecting"
    /\ cycles' = cycles + 1
    /\ UNCHANGED <<svc, proto, mbox, kinds, marked, cmdq, uids, cur, injs, delAt, fetched, sn>>
    /\ UNCHANGED <<mailVars, inj>>

\* The connection ends while the session is under way: clientConnectionLost,
\* retry.  A POP3 server forgets the DELEs of a session that did not QUIT.
ConnectionDropped ==
    /\ pc \notin {"stopped", "connecting", "disconnected"}
    /\ pc' = "disconnected"
    /\ marked' = IF proto = "POP3" THEN {} ELSE marked
    /\ retry
    /\ sn' = [sn EXCEPT !.ended = "dropped"]
    /\ SessionOver
    /\ UNCHANGED <<svc, proto, mbox, kinds, injs, delAt, fetched, cycles>>
    /\ UNCHANGED <<mailVars, inj>>

\* POP3DownloadProtocol.serverGreeting: login
PopGreeting ==
    /\ proto = "POP3" /\ pc = "greeting"
    /\ pc' = "login"
    /\ UNCHANGED <<svc, proto, mbox, kinds, marked, cmdq, uids, cur, injs, delAt, fetched, timer, sn, cycles>>
    /\ UNCHANGED <<mailVars, inj>>

\* cbLoggedIn: listSize
PopLoggedIn ==
    /\ proto = "POP3" /\ pc = "login"
    /\ pc' = "listSize"
    /\ sn' = [sn EXCEPT !.login = "ok", !.listed = TRUE]
    /\ UNCHANGED <<svc, proto, mbox, kinds, marked, cmdq, uids, cur, injs, delAt, fetched, timer, cycles>>
    /\ UNCHANGED <<mailVars, inj>>

\* cbLoginFailed: quit
PopLoginFailed ==
    /\ proto = "POP3" /\ pc = "login"
    /\ pc' = "transfer"
    /\ sn' = [sn EXCEPT !.login = "failed"]
    /\ cmdq' = <<Cmd("QUIT", 0)>>
    /\ UNCHANGED <<svc, proto, mbox, kinds, marked, uids, cur, injs, delAt, fetched, timer, cycles>>
    /\ UNCHANGED <<mailVars, inj>>

\* cbGotMessageSizes: a retrieve is issued for every message at once; with no
\* message the DeferredList fires at once and cbFinished quits
PopGotMessageSizes ==
    LET sizes == listing(mbox)
    IN  /\ proto = "POP3" /\ pc = "listSize"
        /\ pc' = "transfer"
        /\ cmdq' = IF sizes = <<>> THEN <<Cmd("QUIT", 0)>>
                   ELSE [i \in 1..Len(sizes) |-> Cmd("RETR", sizes[i])]
        /\ UNCHANGED <<svc, proto, mbox, kinds, marked, uids, cur, injs, delAt, fetched, timer, sn, cycles>>
        /\ UNCHANGED <<mailVars, inj>>

\* The server refuses the listing: the failure goes down the chain of the
\* login deferred to cbLoginFailed, which quits.
PopListFailed ==
    /\ proto = "POP3" /\ pc = "listSize"
    /\ pc' = "transfer"
    /\ cmdq' = <<Cmd("QUIT", 0)>>
    /\ UNCHANGED <<svc, proto, mbox, kinds, marked, uids, cur, injs, delAt, fetched, timer, sn, cycles>>
    /\ UNCHANGED <<mailVars, inj>>

\* The server refuses a RETR: cbDownloaded is not called for that message;
\* the DeferredList counts the failure, and cbFinished quits after the last.
PopRetrieveFailed ==
    LET rest == Tail(cmdq)
        last_one == \A i \in 1..Len(rest) : rest[i].name # "RETR"
    IN  /\ proto = "POP3" /\ pc = "transfer"
        /\ cmdq # <<>> /\ Head(cmdq).name = "RETR"
        /\ cmdq' = rest \o (IF last_one THEN <<Cmd("QUIT", 0)>> ELSE <<>>)
        /\ UNCHANGED <<svc, proto, mbox, kinds, marked, pc, uids, cur, injs, delAt, fetched, timer, sn, cycles>>
        /\ UNCHANGED <<mailVars, inj>>

\* cbDownloaded: handleMessage, then delete(id) at once; when it was the last
\* retrieve the DeferredList fires and cbFinished quits
cbDownloaded(m) ==
    LET rest == Tail(cmdq)
        last_one == \A i \in 1..Len(rest) : rest[i].name # "RETR"
        \* an exception of handleMessage fails the deferred of this retrieve:
        \* delete is not reached
        raised == kinds[m] = "raise"
    IN  /\ injs' = handleMessage(m)
        /\ fetched' = Append(fetched, m)
        /\ cmdq' = rest \o (IF raised THEN <<>> ELSE <<Cmd("DELE", m)>>)
                        \o (IF last_one THEN <<Cmd("QUIT", 0)>> ELSE <<>>)
        /\ delAt' = IF raised THEN delAt ELSE delAt \cup {<<m, injs'[m]>>}

\* The server answers the oldest POP3 command: a RETR with the message.
PopRetrieved ==
    /\ proto = "POP3" /\ pc = "transfer"
    /\ cmdq # <<>> /\ Head(cmdq).name = "RETR"
    /\ cbDownloaded(Head(cmdq).m)
    /\ UNCHANGED <<svc, proto, mbox, kinds, marked, pc, uids, cur, timer, sn, cycles>>
    /\ UNCHANGED <<mailVars, inj>>

\* The server answers a DELE: the message is marked.
PopDeleted ==
    /\ proto = "POP3" /\ pc = "transfer"
    /\ cmdq # <<>> /\ Head(cmdq).name = "DELE"
    /\ marked' = marked \cup {Head(cmdq).m}
    /\ cmdq' = Tail(cmdq)
    /\ UNCHANGED <<svc, proto, mbox, kinds, pc, uids, cur, injs, delAt, fetched, timer, sn, cycles>>
    /\ UNCHANGED <<mailVars, inj>>

\* The server answers QUIT: it removes the marked messages and closes;
\* clientConnectionLost schedules the next poll.
PopQuit ==
    /\ proto = "POP3" /\ pc = "transfer"
    /\ cmdq # <<>> /\ Head(cmdq).name = "QUIT"
    /\ mbox' = mbox \ marked
    /\ marked' = {}
    /\ pc' = "disconnected"
    /\ retry
    /\ sn' = [sn EXCEPT !.ended = "quit"]
    /\ SessionOver
    /\ UNCHANGED <<svc, proto, kinds, injs, delAt, fetched, cycles>>
    /\ UNCHANGED <<mailVars, inj>>

\* IMAP4DownloadProtocol.fetchNextMessage: the next message of messageUIDs is
\* fetched, or, with none left, the mailbox is expunged and listed again
fetchNextMessage(list) ==
    IF list # <<>>
    THEN /\ uids' = Tail(list)
         /\ cur' = Head(list)
         /\ pc' = "fetchMessage"
    ELSE /\ uids' = list
         /\ cur' = 0
         /\ pc' = "expunge"

\* cbFlagDeleted: the \Deleted flag of the message is asked for
cbFlagDeleted(m, status) ==
    /\ pc' = "addFlags"
    /\ delAt' = delAt \cup {<<m, status>>}

\* the authenticators buildProtocol registers with the protocol
Authenticators == {"CRAM-MD5", "LOGIN", "PLAIN"}

\* the AUTH capabilities a server may announce, in its order
Capabilities ==
    {<<"CRAM-MD5", "LOGIN", "PLAIN">>, <<"PLAIN", "CRAM-MD5">>, <<"GSSAPI", "LOGIN">>,
     <<"GSSAPI">>, <<>>}

\* serverGreeting: authenticate, with the server's AUTH capabilities.
\* IMAP4Client.authenticate sends one AUTHENTICATE, for the first mechanism
\* the server announces that has a registered authenticator, and fails with
\* NoSupportedAuthentication when there is none.
ImapGreetingWith(auths) ==
    LET supported == SelectSeq(auths, LAMBDA a : a \in Authenticators)
    IN  /\ proto = "IMAP4" /\ pc = "greeting"
        /\ IF supported # <<>>
           THEN /\ pc' = "authenticate"
                /\ sn' = [sn EXCEPT !.tried = <<<<"AUTHENTICATE", supported[1]>>>>]
           \* NoSupportedAuthentication: the errback, ebAuthenticateFailed
           ELSE /\ pc' = "login"
                /\ sn' = [sn EXCEPT !.tried = <<<<"LOGIN">>>>]
        /\ UNCHANGED <<svc, proto, mbox, kinds, marked, cmdq, uids, cur, injs, delAt, fetched, timer, cycles>>
        /\ UNCHANGED <<mailVars, inj>>

\* the greeting of a server that offers the three mechanisms
ImapGreeting == ImapGreetingWith(<<"CRAM-MD5", "LOGIN", "PLAIN">>)

\* ebAuthenticateFailed: login
ImapAuthenticateFailed ==
    /\ proto = "IMAP4" /\ pc = "authenticate"
    /\ pc' = "login"
    /\ sn' = [sn EXCEPT !.tried = Append(@, <<"LOGIN">>)]
    /\ UNCHANGED <<svc, proto, mbox, kinds, marked, cmdq, uids, cur, injs, delAt, fetched, timer, cycles>>
    /\ UNCHANGED <<mailVars, inj>>

\* ebLoginFailed: transport.loseConnection; clientConnectionLost, retry
ImapLoginFailed ==
    /\ proto = "IMAP4" /\ pc = "login"
    /\ pc' = "disconnected"
    /\ retry
    /\ sn' = [sn EXCEPT !.login = "failed", !.ended = "lost"]
    /\ SessionOver
    /\ UNCHANGED <<svc, proto, mbox, kinds, marked, injs, delAt, fetched, cycles>>
    /\ UNCHANGED <<mailVars, inj>>

\* cbLoggedIn (after authenticate or login): select("Inbox")
ImapLoggedIn ==
    /\ proto = "IMAP4" /\ pc \in {"authenticate", "login"}
    /\ pc' = "select"
    /\ sn' = [sn EXCEPT !.login = "ok"]
    /\ UNCHANGED <<svc, proto, mbox, kinds, marked, cmdq, uids, cur, injs, delAt, fetched, timer, cycles>>
    /\ UNCHANGED <<mailVars, inj>>

\* cbInboxSelected, after select and after expunge (which removes the
\* messages flagged \Deleted): fetchUID of all messages
ImapInboxSelected ==
    /\ proto = "IMAP4" /\ pc \in {"select", "expunge"}
    /\ mbox' = IF pc = "expunge" THEN mbox \ marked ELSE mbox
    /\ marked' = IF pc = "expunge" THEN {} ELSE marked
    /\ pc' = "fetchUID"
    /\ sn' = [sn EXCEPT !.listed = TRUE, !.relisted = sn.listed]
    /\ UNCHANGED <<svc, proto, kinds, cmdq, uids, cur, injs, delAt, fetched, timer, cycles>>
    /\ UNCHANGED <<mailVars, inj>>

\* cbGotUIDs: the first message is fetched, or the mailbox closed when empty
ImapGotUIDs ==
    /\ proto = "IMAP4" /\ pc = "fetchUID"
    /\ IF mbox # {}
       THEN fetchNextMessage(listing(mbox))
       ELSE /\ pc' = "close"
            /\ UNCHANGED <<uids, cur>>
    /\ UNCHANGED <<svc, proto, mbox, kinds, marked, cmdq, injs, delAt, fetched, timer, sn, cycles>>
    /\ UNCHANGED <<mailVars, inj>>

\* Faulty variant: a message for which handleMessage returned no deferred is
\* passed over without the flag.
cbGotMessageNoFlag(empty) ==
    IF empty \/ kinds[cur] # "inject"
    THEN /\ fetchNextMessage(uids)
         /\ injs' = IF empty THEN injs ELSE handleMessage(cur)
         /\ fetched' = IF empty THEN fetched ELSE Append(fetched, cur)
         /\ UNCHANGED <<delAt>>
    ELSE /\ injs' = handleMessage(cur)
         /\ fetched' = Append(fetched, cur)
         /\ pc' = "injecting"
         /\ UNCHANGED <<delAt, uids, cur>>

\* cbGotMessage: empty results are skipped; else handleMessage, and
\* cbFlagDeleted at once when it returned no deferred, as the deferred's
\* callback when it returned one; an exception of handleMessage goes to
\* ebLogError, which logs it, and the session issues no further command
cbGotMessage(empty) ==
    IF empty
    THEN /\ fetchNextMessage(uids)
         /\ UNCHANGED <<injs, delAt, fetched>>
    ELSE /\ injs' = handleMessage(cur)
         /\ fetched' = Append(fetched, cur)
         /\ IF kinds[cur] = "inject"
            THEN /\ pc' = "injecting"
                 /\ UNCHANGED <<delAt>>
            ELSE IF kinds[cur] = "raise"
            THEN /\ pc' = "unwound"
                 /\ UNCHANGED <<delAt>>
            ELSE cbFlagDeleted(cur, "none")
         /\ UNCHANGED <<uids, cur>>

\* The server answers the fetch of a message.
ImapGotMessage(empty) ==
    /\ proto = "IMAP4" /\ pc = "fetchMessage"
    /\ cbGotMessage(empty)
    /\ UNCHANGED <<svc, proto, mbox, kinds, marked, cmdq, timer, sn, cycles>>
    /\ UNCHANGED <<mailVars, inj>>

\* cbMessageDeleted: the flag is set; on to the next message
ImapMessageDeleted ==
    /\ proto = "IMAP4" /\ pc = "addFlags"
    /\ marked' = marked \cup {cur}
    /\ fetchNextMessage(uids)
    /\ UNCHANGED <<svc, proto, mbox, kinds, cmdq, injs, delAt, fetched, timer, sn, cycles>>
    /\ UNCHANGED <<mailVars, inj>>

\* cbClosed: close has removed the flagged messages; logout
ImapClosed ==
    /\ proto = "IMAP4" /\ pc = "close"
    /\ mbox' = mbox \ marked
    /\ marked' = {}
    /\ pc' = "logout"
    /\ UNCHANGED <<svc, proto, kinds, cmdq, uids, cur, injs, delAt, fetched, timer, sn, cycles>>
    /\ UNCHANGED <<mailVars, inj>>

\* the logout callback: transport.loseConnection; clientConnectionLost, retry
ImapLoggedOut ==
    /\ proto = "IMAP4" /\ pc = "logout"
    /\ pc' = "disconnected"
    /\ retry
    /\ sn' = [sn EXCEPT !.ended = "logout"]
    /\ SessionOver
    /\ UNCHANGED <<svc, proto, mbox, kinds, marked, injs, delAt, fetched, cycles>>
    /\ UNCHANGED <<mailVars, inj>>

\* The server answers a command of the IMAP4 session with a failure: select,
\* fetchUID, addFlags, expunge, close and logout have no errback, and the
\* errback of fetchMessage, ebLogError, only logs; the session issues no
\* further command and keeps its connection.
ImapCommandFailed ==
    /\ proto = "IMAP4"
    /\ pc \in {"select", "fetchUID", "fetchMessage", "addFlags", "expunge", "close", "logout"}
    /\ pc' = "idle"
    /\ UNCHANGED <<svc, proto, mbox, kinds, marked, cmdq, uids, cur, injs, delAt, fetched, timer, sn, cycles>>
    /\ UNCHANGED <<mailVars, inj>>

\* The 401 handler of the injection of message m raised (calcHA1, calcResponse):
\* the connection is closed quietly and the deferred never fires.
InjectionLost(m) ==
    /\ m \in 1..Len(injs)
    /\ injs[m] = "inflight"
    /\ injs' = [injs EXCEPT ![m] = "lost"]
    /\ UNCHANGED <<svc, proto, mbox, kinds, marked, pc, cmdq, uids, cur, delAt, fetched, timer, sn, cycles>>
    /\ UNCHANGED <<mailVars, inj>>

\* The deferred of the injection of message m fires: _success or _failure
\* (which swallows the failure), then, in the IMAP4 session waiting for it,
\* cbFlagDeleted.
InjectionDone(m, end) ==
    /\ m \in 1..Len(injs)
    /\ injs[m] = "inflight"
    /\ injs' = [injs EXCEPT ![m] = end]
    /\ IF proto = "IMAP4" /\ pc = "injecting" /\ cur = m
       THEN cbFlagDeleted(m, end)
       ELSE UNCHANGED <<pc, delAt>>
    /\ UNCHANGED <<svc, proto, mbox, kinds, marked, cmdq, uids, cur, fetched, timer, sn, cycles>>
    /\ UNCHANGED <<mailVars, inj>>

InitPoll ==
    /\ InitMail

\* what the mailbox server and the reactor do when every command is answered
\* with success, or the login refused
Answered ==
    \/ ConnectFailed
    \/ ConnectionMade
    \/ Reconnect
    \/ PopGreeting
    \/ PopLoggedIn
    \/ PopLoginFailed
    \/ PopGotMessageSizes
    \/ PopRetrieved
    \/ PopDeleted
    \/ PopQuit
    \/ ImapGreeting
    \/ ImapAuthenticateFailed
    \/ ImapLoginFailed
    \/ ImapLoggedIn
    \/ ImapInboxSelected
    \/ ImapGotUIDs
    \/ \E empty \in BOOLEAN : ImapGotMessage(empty)
    \/ ImapMessageDeleted
    \/ ImapClosed
    \/ ImapLoggedOut

\* the commands the server refuses, and the connections it drops
Refused ==
    \/ ConnectionDropped
    \/ PopListFailed
    \/ PopRetrieveFailed
    \/ ImapCommandFailed

\* the ends of the injections
Injections ==
    \/ \E m \in 1..MaxMail, end \in InjectionEnds : InjectionDone(m, end)
    \/ \E m \in 1..MaxMail : InjectionLost(m)

\* the service is started and mail arrives
Outside ==
    \/ \E type \in {"POP3", "IMAP4"} : StartService(type)
    \/ \E k \in Kinds : Arrive(k)

NextPoll ==
    \/ Outside
    \/ Answered
    \/ Refused
    \/ Injections

NextAnswered ==
    \/ Outside
    \/ Answered
    \/ Injections

SpecPoll == InitPoll /\ [][NextPoll]_vars

\* The reactor runs what is due and the server answers what it is asked; every
\* injection comes to one of its ends.
SpecPollFair ==
    /\ InitPoll
    /\ [][NextPoll]_vars
    /\ WF_vars(Answered)
    /\ WF_vars(Injections)

\* The same with a server that refuses no command and drops no connection.
SpecPollAnswered ==
    /\ InitPoll
    /\ [][NextAnswered]_vars
    /\ WF_vars(Answered)
    /\ WF_vars(Injections)

\* POP3Service/IMAP4Service.stopService: the client's connector disconnects.
\* An attempt under way is given up (clientConnectionFailed) and a connection
\* is closed (clientConnectionLost); the factory answers either with retry.
\* A nextPoll timer that is pending is left as it is.
StopService ==
    /\ svc = "started"
    /\ svc' = "stopped"
    /\ IF pc = "connecting"
       THEN /\ pc' = "disconnected"
            /\ retry
            /\ delAt' = {}
            /\ fetched' = <<>>
            /\ sn' = Notes("failed", "none", FALSE, "none")
            /\ UNCHANGED <<marked, cmdq, uids, cur>>
       ELSE IF pc = "disconnected"
       THEN UNCHANGED <<pc, timer, sn, marked, cmdq, uids, cur, delAt, fetched>>
       ELSE /\ pc' = "disconnected"
            /\ marked' = IF proto = "POP3" THEN {} ELSE marked
            /\ retry
            /\ sn' = [sn EXCEPT !.ended = "dropped"]
            /\ SessionOver
            /\ UNCHANGED <<delAt, fetched>>
    /\ UNCHANGED <<proto, mbox, kinds, injs, cycles>>
    /\ UNCHANGED <<mailVars, inj>>

NextService ==
    \/ NextPoll
    \/ StopService

\* The pollers with a service that can be stopped.
\* The pollers with servers of every choice of AUTH capabilities.
NextAuth ==
    \/ NextPoll
    \/ \E auths \in Capabilities : ImapGreetingWith(auths)

SpecAuth == InitPoll /\ [][NextAuth]_vars

SpecService == InitPoll /\ [][NextService]_vars

(***************************************************************************)
(* _extractToken and its callers over the shapes of an address             *)
(***************************************************************************)

\* the pieces an address is made of
Pieces == {"server", "+", "@", "t1"}

\* the addresses of up to MaxAddr pieces
Texts == UNION {[1..n -> Pieces] : n \in 0..MaxAddr}

\* a reply sent to the address, and the calendar a DSN returns with the
\* address as its ORGANIZER
ReplyTo(text) ==
    [to |-> text,
     parts |-> PartsOf(FALSE, {}, <<Cal(TRUE, FALSE, TRUE, Evil, {AttB}, TRUE)>>)]

ReturnedFrom(text) == Cal(TRUE, FALSE, TRUE, <<"mailto:">> \o text, {AttB}, TRUE)

\* _extractToken on an address, and processReply and processDSN on a message
\* that carries it
ExtractToken ==
    /\ last.op = "text"
    /\ last' = [op |-> "extract", text |-> last.text,
                token |-> _extractToken(last.text),
                reply |-> processReply(ReplyTo(last.text), tokens),
                bounce |-> processDSN(ReturnedFrom(last.text), tokens)]
    /\ UNCHANGED <<running, tokens, disk, today, days, minted, sess, given, notMail>>

\* a running gateway that has given out one token, and an address
InitToken ==
    /\ inj = NoInjection
    /\ NoPoller
    /\ running = TRUE
    /\ tokens = createTokenRows({}, uuid4(1), OrgA, AttB, "EVT-1", 0)
    /\ disk = tokens
    /\ today = 0
    /\ days = 1
    /\ minted = 1
    /\ sess = [s \in Sessions |-> Idle]
    /\ given = <<>>
    /\ \E text \in Texts : last = [op |-> "text", text |-> text]

SpecToken == InitToken /\ [][ExtractToken]_vars

(***************************************************************************)
(* The gateway over its runs: the handler, the table and the poller        *)
(***************************************************************************)

\* The process ends with its poller: what the connection had not committed
\* is rolled back, the sessions, the protocol and the timers are gone.  A
\* POP3 server forgets the DELEs of a session that did not QUIT.
Exit ==
    /\ running
    /\ running' = FALSE
    /\ tokens' = disk
    /\ sess' = [s \in Sessions |-> Idle]
    /\ last' = [op |-> "stop", pre |-> tokens]
    /\ pc' = "stopped"
    /\ timer' = <<>>
    /\ cycles' = 0
    /\ svc' = "new"
    /\ sn' = Notes("none", "none", FALSE, "none")
    /\ delAt' = {}
    /\ fetched' = <<>>
    /\ marked' = IF proto = "POP3" THEN {} ELSE marked
    /\ SessionOver
    /\ UNCHANGED <<disk, today, days, minted, given, inj, proto, mbox, kinds, injs>>

\* a reply, a bounce and a message without a token, as the poller hands them
\* to inbound
LifeMessages ==
    LET cal == Cal(TRUE, FALSE, TRUE, MaskedOrganizer(uuid4(1)), {AttB}, TRUE)
    IN  {[to |-> MaskedTo(uuid4(1)), parts |-> PartsOf(FALSE, {}, <<cal>>)],
         [to |-> MaskedTo(uuid4(1)),
          parts |-> PartsOf(TRUE, {<<"action:", " ", "failed">>}, <<cal>>)],
         [to |-> <<"server", "@", "example.com">>, parts |-> PartsOf(FALSE, {}, <<cal>>)]}

InitLife ==
    /\ Init
    /\ days = 1

NextLife ==
    \/ Start
    \/ Exit
    \/ Tick
    \/ \E a \in Attendees : Outbound(OrgA, a, PostedRequest(OrgA, a, "EVT-1"))
    \/ \E msg \in LifeMessages : Inbound(msg)
    \/ \E type \in {"POP3", "IMAP4"} : running /\ StartService(type)
    \/ ConnectFailed
    \/ ConnectionMade
    \/ ConnectionDropped
    \/ Reconnect

SpecLife == InitLife /\ [][NextLife]_vars

(***************************************************************************)
(* Properties of the token table and of the inbound rewriting              *)
(***************************************************************************)

TokenRow(rows, token) == CHOOSE r \in rows : r.token = token

\* C3: a Reply whose token resolves to (org, att, uid) is injected with
\* organizer org and attendee att, and the payload handed over has organizer
\* org and exactly the one attendee att, whatever the message carried.
C3_ReplyPayloadHasExactlyTheAttendee ==
    (last.op = "inbound" /\ last.out.injected /\ last.out.kind = "reply") =>
        \E r \in tokens :
            /\ r.token = last.out.token
            /\ last.out.organizer = r.organizer
            /\ last.out.attendee = r.attendee
            /\ last.out.calendar.hasOrg
            /\ last.out.calendar.organizer = r.organizer
            /\ last.out.calendar.attendees = {r.attendee}

\* C4: when the lookup of the extracted token finds nothing, in a Reply as in
\* a Bounce, fn is not called and inbound returns without an exception.
C4_UnknownTokenNeverInjected ==
    (last.op = "inbound" /\ last.out.looked
        /\ lookupByToken(tokens, last.out.token) = {}) =>
        /\ ~last.out.injected
        /\ ~last.out.raised
        /\ last.out.why = "unknown token"

C4_Witness ==
    /\ last.op = "inbound"
    /\ last.out.kind = "reply"
    /\ last.out.looked
    /\ tokens # {}
    /\ lookupByToken(tokens, last.out.token) = {}

\* C5: the table never holds two rows for one (organizer, attendee, icaluid),
\* neither in the connection's view nor in the committed file.
C5_OneRowPerTriple ==
    \A t \in Triples :
        /\ Cardinality(RowsFor(tokens, t.organizer, t.attendee, t.icaluid)) <= 1
        /\ Cardinality(RowsFor(disk, t.organizer, t.attendee, t.icaluid)) <= 1

C5_Witness ==
    /\ last.op = "outbound"
    /\ ~last.newInvitation
    /\ minted > Cardinality(tokens)
    /\ tokens # {}

\* C6: a get-or-create for a triple whose earlier token is still in the table
\* returns that token, adds no row, and leaves the row dated today.
C6_SecondRequestReturnsSameToken ==
    (last.op = "outbound" /\ last.prev # None /\ RowsByToken(last.pre, last.prev) # {}) =>
        /\ last.token = last.prev
        /\ Cardinality(tokens) = Cardinality(last.pre)
        /\ {r.token : r \in tokens} = {r.token : r \in last.pre}
        /\ RowsFor(tokens, last.organizer, last.attendee, last.icaluid)
               = {Row(last.prev, last.organizer, last.attendee, last.icaluid, last.date)}

C6_Witness ==
    /\ last.op = "outbound"
    /\ last.prev # None
    /\ RowsByToken(last.pre, last.prev) # {}
    /\ TokenRow(last.pre, last.prev).datestamp < last.date
    /\ Cardinality(tokens) = 2

\* C7: POST sessions for one triple that were served, however their arrival
\* and their handling were interleaved, hold the same token and the table has
\* one row for the triple; a lookup in between finds nothing or the whole
\* record of the one row of its token.
C7_ConcurrentRequestsConverge ==
    /\ \A s1, s2 \in Sessions :
          (sess[s1].state = "done" /\ sess[s2].state = "done"
              /\ sess[s1].triple = sess[s2].triple) =>
              /\ sess[s1].token = sess[s2].token
              /\ \E r \in tokens :
                    RowsFor(tokens, sess[s1].triple.organizer, sess[s1].triple.attendee,
                            sess[s1].triple.icaluid) = {r}
                    /\ r.token = sess[s1].token
    /\ last.op = "lookup" =>
          \/ last.result = {}
          \/ \E r \in tokens :
                /\ RowsByToken(tokens, last.token) = {r}
                /\ last.result = {<<r.organizer, r.attendee, r.icaluid>>}

C7_Witness ==
    /\ sess[1].state = "done"
    /\ sess[2].state = "done"
    /\ sess[1].triple = sess[2].triple
    /\ last.op = "lookup"
    /\ last.result # {}
    /\ Cardinality(tokens) = 2

\* C8: the startup purge removes the rows dated before the cutoff and no
\* other: the rows dated on or after it stay as they were.
C8_PurgeRemovesExactlyOlderRows ==
    last.op = "start" =>
        /\ \A r \in tokens : r.datestamp >= last.before
        /\ \A r \in last.pre : r.datestamp >= last.before => r \in tokens
        /\ tokens \subseteq last.pre
        /\ disk = tokens

C8_Witness ==
    /\ last.op = "start"
    /\ \E r \in last.pre : r.datestamp < last.before
    /\ \E r \in tokens : r.datestamp = last.before

\* C9: a row whose token a get-or-create obtained on day d is not removed by a
\* later startup purge with a cutoff <= d, also across a restart.
C9_RefreshedRowSurvivesPurge ==
    last.op = "start" =>
        \A r \in last.pre :
            (\E t \in DOMAIN given :
                given[t].token = r.token /\ given[t].date >= last.before)
            => \E r2 \in tokens : r2.token = r.token

(***************************************************************************)
(* Properties of the injection                                             *)
(***************************************************************************)

\* the spec's example: Digest realm="x", nonce="n", qop="auth"
C10Challenge == <<Item("Digest ", Details("x", "n", "auth", None))>>

\* C10: with credentials configured, a first POST answered 401 with that
\* challenge is followed by a retry that carries a Digest Authorization, and
\* a 200 to the retry makes the injection a success.
C10_DigestChallengeThenSuccess ==
    (inj.phase # "idle" /\ inj.creds /\ inj.challenge = C10Challenge
        /\ Len(inj.posts) = 1) =>
        /\ inj.phase = "connecting"
        /\ inj.authorization.scheme = "Digest"
        /\ inj.result = "pending"

Offers(wwwauth) ==
    \E i \in 1..Len(wwwauth) :
        wwwauth[i].prefix \in {"digest ", "Digest ", "basic ", "Basic "}

\* C12: after a 401 to the first POST a second POST is sent only with
\* credentials configured and a challenge offering Digest or Basic; without
\* credentials, or with neither scheme offered, the injection ends with
\* failure Unauthorized after its one POST.
C12_RetryOnlyWithCredentialsAndScheme ==
    (inj.phase # "idle" /\ Len(inj.answers) >= 1 /\ inj.answers[1].status = "401") =>
        /\ Len(inj.posts) >= 2 => (inj.creds /\ Offers(inj.answers[1].wwwauth))
        /\ (~inj.creds \/ ~Offers(inj.answers[1].wwwauth)) =>
              /\ inj.phase = "done"
              /\ inj.result = "failure"
              /\ inj.reason = "Unauthorized"
              /\ Len(inj.posts) = 1

C12_Witness ==
    /\ inj.phase = "done"
    /\ inj.creds
    /\ Len(inj.answers) = 1
    /\ inj.answers[1].status = "401"
    /\ ~Offers(inj.answers[1].wwwauth)
    /\ inj.reason = "Unauthorized"

(***************************************************************************)
(* Properties of the pollers                                               *)
(***************************************************************************)

\* C1: the delete (POP3 DELE, IMAP4 \Deleted) of a message is issued only when
\* the injection inbound started for it is over, never while it is in flight.
C1_DeleteOnlyAfterInjectionEnded ==
    \A d \in delAt : d[2] # "inflight"

\* C2: a message whose injection failed on the connection (refused, reset,
\* timed out) is neither deleted nor flagged in this session and stays in the
\* mailbox.
C2_TransportFailureLeavesMessage ==
    \A m \in 1..Len(injs) :
        injs[m] = "net" =>
            /\ \A d \in delAt : d[1] # m
            /\ m \notin marked
            /\ m \in mbox

ClassifiedReply(out) ==
    /\ out.kind = "reply"
    /\ out.why \notin {"no To address", "no token", "no calendar part"}

\* C15: a message that is no DSN candidate is taken as a reply, with the token
\* of its To address, exactly when that address is prefix+token@domain and
\* the message has a text/calendar part; otherwise nothing is injected.
C15_ReplyIffTokenAndCalendar ==
    (last.op = "inbound" /\ ~(last.seen.report /\ last.seen.status)) =>
        /\ ClassifiedReply(last.out) <=> (last.seen.token # None /\ last.seen.calendar)
        /\ ClassifiedReply(last.out) => last.out.token = last.seen.token
        /\ ~ClassifiedReply(last.out) => ~last.out.injected

C15_Witness ==
    /\ last.op = "inbound"
    /\ ~last.seen.report
    /\ ClassifiedReply(last.out)
    /\ last.out.injected
    /\ last.out.token = last.seen.token

\* C13: whatever message is polled, no exception leaves inbound: a message
\* whose processing raised starts no injection, no session is stopped by it,
\* and the session ends its batch only when no message of it is left.
C13_InboundNeverRaises ==
    /\ \A m \in 1..Len(kinds) :
          /\ kinds[m] # "raise"
          /\ kinds[m] = "caught" => injs[m] = "none"
    /\ pc # "unwound"
    /\ \A i \in 1..Len(cmdq) :
          cmdq[i].name = "QUIT" => \A j \in 1..Len(cmdq) : cmdq[j].name # "RETR"
    /\ pc = "expunge" => uids = <<>>

C13_Witness ==
    \E i, j \in 1..Len(fetched) :
        /\ i < j
        /\ kinds[fetched[i]] = "caught"
        /\ kinds[fetched[j]] = "inject"
        /\ injs[fetched[j]] = "inflight"

\* C16: of the messages a session has fetched, at most one has its injection
\* in flight, and no further message is fetched while one is.
C16_OneMessageInThePipeline ==
    Cardinality({i \in 1..Len(fetched) : injs[fetched[i]] = "inflight"}) <= 1

\* C17: as long as the bound on the attempts is not reached, every connection
\* attempt is followed by another one.
C17_PollingIsPerpetual ==
    \A n \in 1..(MaxCycles - 1) : (cycles = n) ~> (cycles = n + 1)

\* C18: after a failed connection attempt or a refused login the poller is
\* disconnected with one reconnect scheduled, PollingSeconds ahead whatever
\* came before, and the session has listed, fetched and deleted nothing.
C18_FailureSchedulesOneReconnect ==
    (pc = "disconnected" /\ (sn.connect = "failed" \/ sn.login = "failed")) =>
        /\ timer = <<PollingSeconds>>
        /\ ~sn.listed
        /\ fetched = <<>>
        /\ delAt = {}
        /\ marked = {} \/ proto = "IMAP4"

C18_Witness ==
    /\ pc = "disconnected"
    /\ sn.login = "failed"
    /\ cycles >= 2
    /\ mbox # {}
    /\ timer = <<PollingSeconds>>

\* C19: a session that is under way ends: the poller gets to be disconnected
\* with a reconnect scheduled.
C19_SessionsEnd ==
    (pc \notin {"stopped", "disconnected"}) ~> (pc = "disconnected" /\ timer # <<>>)

\* C20: a fetched message that inbound dropped, or whose processing raised,
\* has its delete issued in the same session, and is gone from the mailbox
\* when the session has ended by QUIT or logout.
C20_UnusableMessageIsDeleted ==
    \A i \in 1..Len(fetched) :
        kinds[fetched[i]] \in {"drop", "caught"} =>
            /\ \E d \in delAt : d[1] = fetched[i]
            /\ (pc = "disconnected" /\ sn.ended \in {"quit", "logout"}) =>
                  fetched[i] \notin mbox

C20_Witness ==
    /\ proto = "IMAP4"
    /\ pc = "disconnected"
    /\ sn.ended = "logout"
    /\ \E i \in 1..Len(fetched) :
          kinds[fetched[i]] = "caught" /\ fetched[i] \notin mbox

C23_TemplateChoice ==
    (last.op = "outbound" /\ last.sent) =>
        LET before == RowsFor(last.pre, last.organizer, last.attendee, last.icaluid)
        IN  /\ last.message.Subject =
                  IF last.method = "CANCEL" THEN "Event canceled"
                  ELSE IF before = {} THEN "Event invitation"
                  ELSE "Event update"
            /\ (last.method # "CANCEL" /\ last.prev = None) =>
                  last.message.Subject = "Event invitation"
            /\ (last.method # "CANCEL" /\ last.prev # None
                    /\ RowsByToken(last.pre, last.prev) # {}) =>
                  last.message.Subject = "Event update"

\* an invitation again, after the purge at a start removed the token
C23_Witness ==
    /\ last.op = "outbound"
    /\ last.sent
    /\ last.method = "REQUEST"
    /\ last.prev # None
    /\ RowsByToken(last.pre, last.prev) = {}
    /\ last.message.Subject = "Event invitation"

\* C24: outbound returns to its caller without raising.
C24_OutboundNeverRaises ==
    last.op = "outbound" => ~last.raised

\* C25: a start with a mail type that is neither POP3 nor IMAP4 fails: the
\* construction of the service raises.
C25_InvalidTypeIsFatal ==
    (last.op = "start"
        /\ ~startswith(lower(last.mailType), <<"p", "o", "p">>)
        /\ ~startswith(lower(last.mailType), <<"i", "m", "a", "p">>)) =>
        last.made.raised

\* C26: within a session nothing is fetched before the login succeeded and
\* the mailbox was listed, the mailbox is listed once, a fetched message is
\* acknowledged before the next one is fetched (at most one delete is waiting
\* for its answer), and a session that was closed has issued the delete of
\* every message it fetched.
C26_SessionOrder ==
    /\ fetched # <<>> => (sn.login = "ok" /\ sn.listed)
    /\ ~sn.relisted
    /\ Cardinality({i \in 1..Len(cmdq) : cmdq[i].name = "DELE"}) <= 1
    /\ sn.ended \in {"quit", "logout"} =>
          \A i \in 1..Len(fetched) : \E d \in delAt : d[1] = fetched[i]

OffersDigest(wwwauth) ==
    \E i \in 1..Len(wwwauth) : wwwauth[i].prefix \in {"digest ", "Digest "}

OffersBasic(wwwauth) ==
    \E i \in 1..Len(wwwauth) : wwwauth[i].prefix \in {"basic ", "Basic "}

\* C27: with credentials configured, after a first 401 whose values offer
\* Digest and Basic the POST is retried with a Digest Authorization header;
\* a Basic Authorization header is only used after a 401 that did not offer
\* Digest.
C27_DigestPreferred ==
    (inj.phase # "idle" /\ inj.creds /\ inj.answers # <<>>
        /\ inj.answers[1].status = "401") =>
        /\ (OffersDigest(inj.answers[1].wwwauth) /\ OffersBasic(inj.answers[1].wwwauth)) =>
              inj.authorization.scheme = "Digest"
        /\ inj.authorization.scheme = "Basic" => ~OffersDigest(inj.answers[1].wwwauth)

\* C31: when the Digest challenge offers qop, the Authorization header of
\* the retry carries cnonce, qop and nc, and its response is the hash over
\* HA1:nonce:nc:cnonce:qop:HA2 with the nc, cnonce and qop the header sends;
\* when qop is not offered the response is the hash over HA1:nonce:HA2 and
\* the header carries none of the three.
C31_DigestResponse ==
    (inj.phase # "idle" /\ inj.authorization.scheme = "Digest") =>
        LET d == detailsOf(inj.answers[1].wwwauth)
            a == inj.authorization
            HA1 == calcHA1(d.algorithm, Username, d.realm, Password, d.nonce, d.cnonce).value
            HA2 == H(d.algorithm, <<Str("POST"), Str(InboxURL)>>)
        IN  IF d.qop # None
            THEN /\ a.hasQop
                 /\ a.response = H(d.algorithm, <<HA1, Str(d.nonce), Str(a.nc), Str(a.cnonce),
                                                  Str(a.qop), HA2>>)
            ELSE /\ ~a.hasQop
                 /\ a.response = H(d.algorithm, <<HA1, Str(d.nonce), HA2>>)

C29_MaskedOrganizer ==
    (last.op = "outbound" /\ last.sent) =>
        /\ last.message.ReplyTo = MaskedTo(last.token)
        /\ last.message.ical.organizer = MaskedOrganizer(last.token)
        /\ last.message.ical.organizer # last.organizer
        /\ last.organizer \notin last.message.ical.attendees
        /\ last.organizer \in last.calendar.attendees =>
              MaskedOrganizer(last.token) \in last.message.ical.attendees
        /\ last.calendar.attendees \ {last.organizer} =
              last.message.ical.attendees \ {MaskedOrganizer(last.token)}

\* a request that lists the organizer as an attendee, composed with the
\* second token
C29_Witness ==
    /\ last.op = "outbound"
    /\ last.sent
    /\ last.token = uuid4(2)
    /\ last.organizer \in last.calendar.attendees
    /\ last.message.ical.attendees = {AttB, MaskedOrganizer(uuid4(2))}
    /\ last.message.ReplyTo = <<"server", "+", uuid4(2), "@", "example.com">>

C38_NoConnectAfterStop ==
    [][/\ (svc = "started" /\ svc' = "stopped") => Len(timer') <= Len(timer)
       /\ svc = "stopped" => pc' # "connecting"]_vars

\* C32: the purge of old tokens runs at the start of the process, when the
\* MailHandler is constructed, with the cutoff today - InvitationDaysToLive,
\* and at no other step: a composition, an inbound message, a poll cycle or
\* a reconnect takes no committed row out of the table.
C32_PurgeOnlyAtStart ==
    [][IF ~running /\ running'
       THEN /\ disk' = {r \in disk : r.datestamp >= today - days}
            /\ tokens' = disk'
       ELSE /\ \A r \in disk : \E x \in disk' : x.token = r.token
            /\ running' => \A r \in tokens : \E x \in tokens' : x.token = r.token]_vars

\* a token that was given out is gone with a start's purge, and the poller of
\* this run has reconnected since
C32_Witness ==
    /\ running
    /\ pc = "connecting"
    /\ cycles > 1
    /\ \E t \in DOMAIN given : \A r \in tokens : r.token # given[t].token

\* the mechanism or command of a login attempt
Mechanism(attempt) == attempt[Len(attempt)]

\* C33: an IMAP4 session tries CRAM-MD5, LOGIN and PLAIN in that order, each
\* after the one before it failed; the mailbox is listed only after a login
\* that succeeded; and the connection is given up, with a reconnect
\* scheduled, only when all three have failed.
C33_AuthenticatorsInOrder ==
    proto = "IMAP4" =>
        /\ \A i \in 1..Len(sn.tried) :
              /\ i <= 3
              /\ Mechanism(sn.tried[i]) = <<"CRAM-MD5", "LOGIN", "PLAIN">>[i]
        /\ sn.listed => sn.login = "ok"
        /\ (pc = "disconnected" /\ sn.login = "failed") =>
              (Len(sn.tried) = 3 /\ timer # <<>>)

\* C34: the step that renders a POST to /inbox runs the inbound pipeline on
\* the posted calendar: it classifies the message as polled mail is
\* classified, ends in an injection or a drop, mints no token and sends no
\* mail.
C34_PostRunsInbound ==
    [][(\E s \in Sessions : sess[s].state = "pending" /\ sess'[s].state = "done") =>
          /\ last'.op = "inbound"
          /\ tokens' = tokens
          /\ minted' = minted]_vars

\* C35: a step of inbound leaves the token table as it was, whatever the
\* message and whatever its outcome (reply, bounce, unusable, unknown token,
\* exception): no row is created, deleted or refreshed, in the connection's
\* view or on disk, and the token it resolved resolves again.
C35_InboundLeavesTable ==
    [][last'.op = "inbound" =>
          /\ tokens' = tokens
          /\ disk' = disk
          /\ minted' = minted
          /\ last'.out.injected => lookupByToken(tokens', last'.out.token) # {}]_vars

\* a reply was injected for a token of the table, and the row is there
C35_Witness ==
    /\ last.op = "inbound"
    /\ last.out.injected
    /\ last.out.kind = "reply"
    /\ \E r \in tokens : r.token = last.out.token

\* C36: after an outbound call that raised ValueError for an attendee address
\* that is no mailto: address, the token table is as it was before the call,
\* in the connection's view and on disk (no row created, no date refreshed),
\* and no mail was submitted.
C36_FailedOutboundLeavesTable ==
    (last.op = "outbound" /\ last.raised) =>
        /\ tokens = last.pre
        /\ disk = last.preDisk
        /\ ~last.sent

\* C37: an IMAP4 session does not stay for ever in its loop of listing,
\* fetching, flagging and expunging: time and again it is outside the loop
\* (closing, logging out, disconnected, or waiting for an injection), also
\* when a fetch comes back with empty results.
C37_ListingLoopEnds ==
    []<>(proto = "IMAP4" => pc \notin {"fetchUID", "fetchMessage", "addFlags", "expunge"})

\* C39: a call of inbound calls the injection function at most once; exactly
\* once, as a bounce or as a reply after what the message is, when the
\* message is a bounce that can be acted on or a reply, its token is in the
\* table and its calendar parses; and never for a bounce and a reply both.
C39_AtMostOneInjection ==
    last.op = "inbound" =>
        /\ Len(last.out.calls) <= 1
        /\ last.ready.bounce => (Len(last.out.calls) = 1 /\ last.out.calls[1] = "bounce")
        /\ last.ready.reply => (Len(last.out.calls) = 1 /\ last.out.calls[1] = "reply")
        /\ ~(\E i, j \in 1..Len(last.out.calls) :
                last.out.calls[i] = "bounce" /\ last.out.calls[j] = "reply")

\* a failed DSN came to a reply address with a token of the table, with a
\* calendar whose organizer carries a token of the table: one injection, the
\* bounce
C39_Witness ==
    /\ last.op = "inbound"
    /\ last.ready.bounce
    /\ last.ready.addressed
    /\ Len(last.out.calls) = 1
    /\ last.out.calls[1] = "bounce"

\* the places of a piece in an address
Places(text, piece) == {i \in 1..Len(text) : text[i] = piece}

\* the address has exactly one '@' and exactly one '+' in the part before it
TokenShaped(text) ==
    /\ Cardinality(Places(text, "@")) = 1
    /\ Cardinality({i \in Places(text, "+") : \A a \in Places(text, "@") : i < a}) = 1

\* what stands between that '+' and the '@'
TokenPart(text) ==
    LET at == CHOOSE a \in Places(text, "@") : TRUE
        plus == CHOOSE i \in Places(text, "+") : i < at
    IN  join(SubSeq(text, plus + 1, at - 1))

\* C40: _extractToken yields a token exactly for an address with one '@' and
\* one '+' before it, and then what stands between the two; for every other
\* shape, and for an empty token, processReply and processDSN look nothing up
\* and inject nothing.
C40_TokenOnlyFromShape ==
    last.op = "extract" =>
        /\ last.token # None <=> TokenShaped(last.text)
        /\ TokenShaped(last.text) => last.token = TokenPart(last.text)
        /\ (~TokenShaped(last.text) \/ last.token = "") =>
              /\ ~last.reply.looked /\ ~last.reply.injected
              /\ ~last.bounce.looked /\ ~last.bounce.injected

\* an address with a second '+' after its '@' gave the token of the table,
\* and the reply to it was injected
C40_Witness ==
    /\ last.op = "extract"
    /\ Cardinality(Places(last.text, "+")) = 2
    /\ last.token = uuid4(1)
    /\ last.reply.injected


=============================================================================
